---- MODULE Spec2Model ----
(***************************************************************************)
(* TreeNode<T> of treenode.ts: a mutable ordered N-ary tree whose nodes    *)
(* cache their sibling position.  The heap of TreeNode objects is the      *)
(* state; one action per public mutating method.                           *)
(***************************************************************************)
EXTENDS Integers, Sequences, FiniteSets, TLC

\* Size of the object pool: how many TreeNode objects a run may construct.
MaxNodes == 4

Null == 0
Nodes == 1..MaxNodes

VARIABLES
  model,      \* model[n]    : TreeNode.model, the payload (opaque to the tree)
  parent,     \* parent[n]   : TreeNode.parent (Null for none)
  children,   \* children[n] : TreeNode._children, a sequence of nodes
  index,      \* index[n]    : TreeNode._index, the cached sibling position
  nodeCount,  \* number of TreeNode objects constructed so far
  call,       \* the call the caller is looking at: receiver, arguments,
              \* outcome (op "none" between calls)
  pre,        \* the heap as it was when that call started
  tasks       \* tasks[n]    : how far a mapAsync call in progress has got with
              \* node n (<<>> when no mapAsync call was made)

vars == <<model, parent, children, index, nodeCount, call, pre, tasks>>

\* The four fields of every object, as one value.
Heap == [model |-> model, parent |-> parent, children |-> children, index |-> index]

Created == 1..nodeCount

----------------------------------------------------------------------------
(* JavaScript array primitives on 0-based positions *)

\* arr[i]: the element at 0-based position i, undefined (Null) out of range.
At(arr, i) == IF i >= 0 /\ i < Len(arr) THEN arr[i + 1] ELSE Null

\* arr.splice(i, 0, x) for 0 <= i <= length.
SpliceIn(arr, i, x) == SubSeq(arr, 1, i) \o <<x>> \o SubSeq(arr, i + 1, Len(arr))

\* arr.splice(i, 1) for i >= 0: removes nothing when i is beyond the end.
SpliceOut(arr, i) ==
  IF i < Len(arr) THEN SubSeq(arr, 1, i) \o SubSeq(arr, i + 2, Len(arr)) ELSE arr

\* for (let i = from; i < arr.length; i++) arr[i]._index = i;
\* a node listed more than once keeps the last position written.
Reindex(idx, arr, from) ==
  [n \in DOMAIN idx |->
     LET at == {i \in from..(Len(arr) - 1) : arr[i + 1] = n}
     IN IF at = {} THEN idx[n] ELSE CHOOSE i \in at : \A j \in at : j <= i]

----------------------------------------------------------------------------
(* The mutating methods, as functions from a heap to the heap afterwards *)

\* new TreeNode(m): model m, parent null, no children, _index 0.
NewNode(h, n, m) ==
  [h EXCEPT !.model[n] = m, !.parent[n] = Null, !.children[n] = <<>>,
            !.index[n] = 0]

\* add(child, index?) appending at the end with child._index one too large.
add_shiftedAppend(h, this, child, hasIndex, idx) ==
  LET h1  == [h EXCEPT !.parent[child] = this]
      len == Len(h1.children[this])
  IN IF ~hasIndex
       THEN [heap  |-> [h1 EXCEPT !.index[child] = len + 1,
                                  !.children[this] = Append(@, child)],
             threw |-> FALSE, ret |-> child]
     ELSE IF idx < 0 \/ idx > len
       THEN [heap |-> h1, threw |-> TRUE, ret |-> Null]
     ELSE LET arr == SpliceIn(h1.children[this], idx, child)
          IN [heap  |-> [h1 EXCEPT !.children[this] = arr,
                                   !.index = Reindex(@, arr, idx)],
              threw |-> FALSE, ret |-> child]

\* add(child, index) that splices before it validates the index.
add_spliceFirst(h, this, child, hasIndex, idx) ==
  LET h1  == [h EXCEPT !.parent[child] = this]
      len == Len(h1.children[this])
  IN IF ~hasIndex
       THEN [heap  |-> [h1 EXCEPT !.index[child] = len,
                                  !.children[this] = Append(@, child)],
             threw |-> FALSE, ret |-> child]
     ELSE LET at  == IF idx < 0 THEN 0 ELSE IF idx > len THEN len ELSE idx
              arr == SpliceIn(h1.children[this], at, child)
          IN IF idx < 0 \/ idx > len
               THEN [heap |-> [h1 EXCEPT !.children[this] = arr],
                     threw |-> TRUE, ret |-> Null]
               ELSE [heap  |-> [h1 EXCEPT !.children[this] = arr,
                                          !.index = Reindex(@, arr, idx)],
                     threw |-> FALSE, ret |-> child]

\* add(child, index?): the parent link is written first, then the index is
\* validated, then the child is appended or spliced in and re-indexed.
add(h, this, child, hasIndex, idx) ==
  LET h1  == [h EXCEPT !.parent[child] = this]
      len == Len(h1.children[this])
  IN IF ~hasIndex
       THEN [heap  |-> [h1 EXCEPT !.index[child] = len,
                                  !.children[this] = Append(@, child)],
             threw |-> FALSE, ret |-> child]
     ELSE IF idx < 0 \/ idx > len
       THEN [heap |-> h1, threw |-> TRUE, ret |-> Null]
     ELSE LET arr == SpliceIn(h1.children[this], idx, child)
          IN [heap  |-> [h1 EXCEPT !.children[this] = arr,
                                   !.index = Reindex(@, arr, idx)],
              threw |-> FALSE, ret |-> child]

\* The exchange of swap: positions i and j of arr, then the two _index writes.
Exchange(h, this, i, j) ==
  LET arr  == h.children[this]
      arr1 == [arr EXCEPT ![i + 1] = arr[j + 1], ![j + 1] = arr[i + 1]]
      idx1 == [h.index EXCEPT ![arr1[i + 1]] = i]
      idx2 == [idx1 EXCEPT ![arr1[j + 1]] = j]
  IN [h EXCEPT !.children[this] = arr1, !.index = idx2]

\* swap(i, j) whose upper bound check is off by one (> instead of >=): the
\* position one past the end is read as undefined, the exchange is done and
\* the _index write on undefined then throws.
swap_offByOne(h, this, i, j) ==
  LET len == Len(h.children[this])
  IN IF i < 0 \/ j < 0 \/ i > len \/ j > len
       THEN [heap |-> h, threw |-> TRUE]
     ELSE IF i = j THEN [heap |-> h, threw |-> FALSE]
     ELSE IF i = len \/ j = len
       THEN LET arr  == Append(h.children[this], Null)
                arr1 == [arr EXCEPT ![i + 1] = arr[j + 1], ![j + 1] = arr[i + 1]]
            IN [heap |-> [h EXCEPT !.children[this] = arr1], threw |-> TRUE]
     ELSE [heap |-> Exchange(h, this, i, j), threw |-> FALSE]

\* swap(i, j) that writes the old positions into the two cached indices.
swap_staleIndex(h, this, i, j) ==
  LET len == Len(h.children[this])
  IN IF i < 0 \/ j < 0 \/ i >= len \/ j >= len
       THEN [heap |-> h, threw |-> TRUE]
     ELSE IF i = j THEN [heap |-> h, threw |-> FALSE]
     ELSE LET arr  == h.children[this]
              arr1 == [arr EXCEPT ![i + 1] = arr[j + 1], ![j + 1] = arr[i + 1]]
          IN [heap |-> [h EXCEPT !.children[this] = arr1], threw |-> FALSE]

\* swap(i, j): validate both positions, return when equal, else exchange.
swap(h, this, i, j) ==
  LET len == Len(h.children[this])
  IN IF i < 0 \/ j < 0 \/ i >= len \/ j >= len
       THEN [heap |-> h, threw |-> TRUE]
     ELSE IF i = j THEN [heap |-> h, threw |-> FALSE]
     ELSE [heap |-> Exchange(h, this, i, j), threw |-> FALSE]

\* drop() that splices the receiver's own children instead of the parent's
\* and does so without looking at isRoot.
drop_ownChildren(h, this) ==
  LET i   == h.index[this]
      arr == SpliceOut(h.children[this], i)
      h1  == [h EXCEPT !.children[this] = arr, !.index = Reindex(@, arr, i)]
  IN [h1 EXCEPT !.parent[this] = Null, !.index[this] = 0]

\* drop(): nothing on a root; else remove position _index from the parent's
\* children, re-index what follows, clear the parent link and the index.
drop(h, this) ==
  IF h.parent[this] # Null
    THEN LET p   == h.parent[this]
             i   == h.index[this]
             arr == SpliceOut(h.children[p], i)
             h1  == [h EXCEPT !.children[p] = arr, !.index = Reindex(@, arr, i)]
         IN [h1 EXCEPT !.parent[this] = Null, !.index[this] = 0]
    ELSE h

----------------------------------------------------------------------------
(* Derived properties *)

\* A bound on the length of any walk along parent or children links that
\* visits no object twice: the number of objects.
Fuel(h) == Cardinality(DOMAIN h.parent)

\* get isRoot
isRoot(h, n) == h.parent[n] = Null

\* get root: follow parent links; fuel bounds the walk on a cyclic heap.
RECURSIVE rootFrom(_, _, _)
rootFrom(h, n, fuel) ==
  IF h.parent[n] = Null \/ fuel = 0 THEN n ELSE rootFrom(h, h.parent[n], fuel - 1)

root(h, n) == rootFrom(h, n, Fuel(h))

\* get depth: parent ? parent.depth + 1 : 0
RECURSIVE depthFrom(_, _, _)
depthFrom(h, n, fuel) ==
  IF h.parent[n] = Null \/ fuel = 0 THEN 0 ELSE depthFrom(h, h.parent[n], fuel - 1) + 1

depth(h, n) == depthFrom(h, n, Fuel(h))

\* arr.reverse()
RECURSIVE Reverse(_)
Reverse(arr) == IF arr = <<>> THEN <<>> ELSE Reverse(Tail(arr)) \o <<Head(arr)>>

\* The loop of get indices: push node.index while node.parent, going up.
RECURSIVE indicesUp(_, _, _)
indicesUp(h, node, fuel) ==
  IF h.parent[node] = Null \/ fuel = 0
    THEN <<>>
    ELSE <<h.index[node]>> \o indicesUp(h, h.parent[node], fuel - 1)

\* get indices that returns the positions as pushed, leaf first.
indices_noReverse(h, n) == indicesUp(h, n, Fuel(h))

\* get indices: the pushed positions, reversed.
indices(h, n) == Reverse(indicesUp(h, n, Fuel(h)))

\* Strings are sequences of one-character strings.
DigitChars == <<"0", "1", "2", "3", "4", "5", "6", "7", "8", "9">>

RECURSIVE digitsOf(_)
digitsOf(n) ==
  IF n < 10 THEN <<DigitChars[n + 1]>>
  ELSE digitsOf(n \div 10) \o <<DigitChars[(n % 10) + 1]>>

\* String(n) for an integer n, as join applies it to each part.
numberToString(n) == IF n < 0 THEN <<"-">> \o digitsOf(0 - n) ELSE digitsOf(n)

\* parts.join(',')
RECURSIVE join(_)
join(parts) ==
  IF parts = <<>> THEN <<>>
  ELSE IF Len(parts) = 1 THEN numberToString(parts[1])
  ELSE numberToString(parts[1]) \o <<",">> \o join(Tail(parts))

\* str.split(','): the pieces between commas (one empty piece for '').
RECURSIVE splitFrom(_, _)
splitFrom(str, piece) ==
  IF str = <<>> THEN <<piece>>
  ELSE IF Head(str) = "," THEN <<piece>> \o splitFrom(Tail(str), <<>>)
  ELSE splitFrom(Tail(str), Append(piece, Head(str)))

split(str) == splitFrom(str, <<>>)

RECURSIVE digitsValue(_, _)
digitsValue(str, acc) ==
  IF str = <<>> THEN acc
  ELSE digitsValue(Tail(str),
         acc * 10 + (CHOOSE d \in 0..9 : DigitChars[d + 1] = Head(str)))

\* Number(str) for a decimal numeral with an optional minus sign; Number('')
\* is 0.
Number(str) ==
  IF str = <<>> THEN 0
  ELSE IF Head(str) = "-" THEN 0 - digitsValue(Tail(str), 0)
  ELSE digitsValue(str, 0)

\* The loop of get pathKey that does not reset the zero run after flushing it.
RECURSIVE pathParts_noReset(_, _, _)
pathParts_noReset(ix, k, zeroCount) ==
  IF k > Len(ix)
    THEN IF zeroCount > 0 THEN <<zeroCount>> ELSE <<>>
  ELSE IF ix[k] = 0
    THEN pathParts_noReset(ix, k + 1, zeroCount + 1)
  ELSE (IF zeroCount > 0 THEN <<zeroCount>> ELSE <<>>)
         \o <<0 - ix[k]>> \o pathParts_noReset(ix, k + 1, zeroCount)

\* The loop of get pathKey from position k on, with the pending zero run.
RECURSIVE pathParts(_, _, _)
pathParts(ix, k, zeroCount) ==
  IF k > Len(ix)
    THEN IF zeroCount > 0 THEN <<zeroCount>> ELSE <<>>
  ELSE IF ix[k] = 0
    THEN pathParts(ix, k + 1, zeroCount + 1)
  ELSE (IF zeroCount > 0 THEN <<zeroCount>> ELSE <<>>)
         \o <<0 - ix[k]>> \o pathParts(ix, k + 1, 0)

\* The loop of get pathKey without the flush of the trailing zero run.
RECURSIVE pathParts_noTrailingFlush(_, _, _)
pathParts_noTrailingFlush(ix, k, zeroCount) ==
  IF k > Len(ix)
    THEN <<>>
  ELSE IF ix[k] = 0
    THEN pathParts_noTrailingFlush(ix, k + 1, zeroCount + 1)
  ELSE (IF zeroCount > 0 THEN <<zeroCount>> ELSE <<>>)
         \o <<0 - ix[k]>> \o pathParts_noTrailingFlush(ix, k + 1, 0)

\* get pathKey that forgets the zero run pending at the end of the loop.
pathKey_noTrailingFlush(h, n) ==
  LET ix == indices(h, n)
  IN IF Len(ix) = 0 THEN <<>> ELSE join(pathParts_noTrailingFlush(ix, 1, 0))

\* get pathKey, from "const indices = this.indices" on.
pathKeyOf(ix) == IF Len(ix) = 0 THEN <<>> ELSE join(pathParts(ix, 1, 0))

\* get pathKey
pathKey(h, n) == pathKeyOf(indices(h, n))

\* fetch(indices) that answers the last node it reached when a step finds no
\* child, instead of null.
RECURSIVE fetch_lastReached(_, _, _)
fetch_lastReached(h, this, ix) ==
  IF ix = <<>> THEN this
  ELSE LET node == At(h.children[this], Head(ix))
       IN IF node = Null THEN this ELSE fetch_lastReached(h, node, Tail(ix))

\* fetch(indices): node = node.children[i] for each i, null once undefined.
RECURSIVE fetch(_, _, _)
fetch(h, this, ix) ==
  IF ix = <<>> THEN this
  ELSE LET node == At(h.children[this], Head(ix))
       IN IF node = Null THEN Null ELSE fetch(h, node, Tail(ix))

\* The loop of fetchByPathKey: a part >= 0 is that many zeros, else -part.
RECURSIVE expandParts(_)
expandParts(parts) ==
  IF parts = <<>> THEN <<>>
  ELSE (IF Head(parts) >= 0
          THEN [i \in 1..Head(parts) |-> 0]
          ELSE <<0 - Head(parts)>>) \o expandParts(Tail(parts))

\* fetchByPathKey(pathKey)
fetchByPathKey(h, this, key) ==
  IF key = <<>> THEN this
  ELSE LET strs  == split(key)
           parts == [k \in 1..Len(strs) |-> Number(strs[k])]
       IN fetch(h, this, expandParts(parts))

----------------------------------------------------------------------------
(* The traversals.  A callback is the set of nodes it answers truthy for;   *)
(* visited is the list of nodes it has been invoked on so far.              *)

\* The loop of breadth with the children of a node pushed last child first.
RECURSIVE breadthLoop_childrenReversed(_, _, _, _, _)
breadthLoop_childrenReversed(h, queue, head, truthy, visited) ==
  IF head >= Len(queue) THEN [ret |-> Null, visited |-> visited]
  ELSE LET node == queue[head + 1]
       IN IF node \in truthy
            THEN [ret |-> node, visited |-> Append(visited, node)]
            ELSE breadthLoop_childrenReversed(h, queue \o Reverse(h.children[node]),
                                              head + 1, truthy, Append(visited, node))

\* The loop of breadth: take queue[head], invoke the callback, return the
\* node when truthy, else push its children in order.
RECURSIVE breadthLoop(_, _, _, _, _)
breadthLoop(h, queue, head, truthy, visited) ==
  IF head >= Len(queue) THEN [ret |-> Null, visited |-> visited]
  ELSE LET node == queue[head + 1]
       IN IF node \in truthy
            THEN [ret |-> node, visited |-> Append(visited, node)]
            ELSE breadthLoop(h, queue \o h.children[node], head + 1, truthy,
                             Append(visited, node))

\* breadth(callback)
breadth(h, this, truthy) == breadthLoop(h, <<this>>, 0, truthy, <<>>)

RECURSIVE preOrder(_, _, _, _)
RECURSIVE preChildren(_, _, _, _, _)
RECURSIVE preChildren_noEarlyReturn(_, _, _, _, _)

\* The loop of pre (pre-order) that goes on to the next child after a child's
\* search returned a node.
preChildren_noEarlyReturn(h, this, i, truthy, visited) ==
  IF i >= Len(h.children[this]) THEN [ret |-> Null, visited |-> visited]
  ELSE LET r == preOrder(h, h.children[this][i + 1], truthy, visited)
           t == preChildren_noEarlyReturn(h, this, i + 1, truthy, r.visited)
       IN IF t.ret # Null THEN t ELSE [ret |-> r.ret, visited |-> t.visited]

\* The loop of pre over the children from position i on.
preChildren(h, this, i, truthy, visited) ==
  IF i >= Len(h.children[this]) THEN [ret |-> Null, visited |-> visited]
  ELSE LET r == preOrder(h, h.children[this][i + 1], truthy, visited)
       IN IF r.ret # Null THEN r
          ELSE preChildren(h, this, i + 1, truthy, r.visited)

\* pre(callback): the callback on this first, then each child's pre in order.
preOrder(h, this, truthy, visited) ==
  IF this \in truthy
    THEN [ret |-> this, visited |-> Append(visited, this)]
    ELSE preChildren(h, this, 0, truthy, Append(visited, this))

RECURSIVE postOrder(_, _, _, _)
RECURSIVE postChildren(_, _, _, _, _)

\* The loop of post over the children from position i on, then the callback
\* on this.
postChildren(h, this, i, truthy, visited) ==
  IF i >= Len(h.children[this])
    THEN [ret     |-> IF this \in truthy THEN this ELSE Null,
          visited |-> Append(visited, this)]
  ELSE LET r == postOrder(h, h.children[this][i + 1], truthy, visited)
       IN IF r.ret # Null THEN r
          ELSE postChildren(h, this, i + 1, truthy, r.visited)

\* post(callback): each child's post in order, then the callback on this.
postOrder(h, this, truthy, visited) == postChildren(h, this, 0, truthy, visited)

\* this[method](callback)
traverse(h, this, method, truthy) ==
  IF method = "breadth" THEN breadth(h, this, truthy)
  ELSE IF method = "pre" THEN preOrder(h, this, truthy, <<>>)
  ELSE postOrder(h, this, truthy, <<>>)

\* flatten(method): the callback pushes the node and returns nothing.
flatten(h, this, method) == traverse(h, this, method, {}).visited

\* find(predicate, method = "pre"): the callback answers predicate(node).
find(h, this, predicate, hasMethod, method) ==
  traverse(h, this, IF hasMethod THEN method ELSE "pre", predicate).ret

\* arr.filter(x => x in keep)
Filter(arr, keep) == SelectSeq(arr, LAMBDA x : x \in keep)

\* findAll that hands the predicate's answer back to the traversal.
findAll_returnsAnswer(h, this, predicate, hasMethod, method) ==
  Filter(traverse(h, this, IF hasMethod THEN method ELSE "pre", predicate).visited,
         predicate)

\* findAll(predicate, method = "pre"): the callback pushes the node when
\* predicate(node) and returns nothing.
findAll(h, this, predicate, hasMethod, method) ==
  Filter(traverse(h, this, IF hasMethod THEN method ELSE "pre", {}).visited,
         predicate)

----------------------------------------------------------------------------
(* The methods that build trees: clone, map, parse, and toObject.  count is *)
(* the number of objects constructed so far; a new object is count + 1.     *)

\* The callbacks handed to map: node => node.model + "!" (as the tests do)
\* and node => node.children.length.
callback(cb, h, node) ==
  IF cb = "bang" THEN <<h.model[node], "!">> ELSE Len(h.children[node])

RECURSIVE clone(_, _, _)
RECURSIVE cloneChildren(_, _, _, _, _, _)
RECURSIVE cloneChildren_shared(_, _, _, _, _, _)

\* The children.map of clone that hands the receiver's own children to the
\* new node instead of clones of them.
cloneChildren_shared(h, count, this, node, i, acc) ==
  IF i >= Len(h.children[this])
    THEN [heap |-> [h EXCEPT !.children[node] = acc], count |-> count, ret |-> node]
    ELSE LET c == h.children[this][i + 1]
         IN cloneChildren_shared([h EXCEPT !.parent[c] = node, !.index[c] = i],
                                 count, this, node, i + 1, Append(acc, c))

\* The children.map of clone from position i on: clone the child, set its
\* parent and _index; at the end assign the list to node._children.
cloneChildren(h, count, this, node, i, acc) ==
  IF i >= Len(h.children[this])
    THEN [heap |-> [h EXCEPT !.children[node] = acc], count |-> count, ret |-> node]
    ELSE LET r  == clone(h, count, h.children[this][i + 1])
             h1 == [r.heap EXCEPT !.parent[r.ret] = node, !.index[r.ret] = i]
         IN cloneChildren(h1, r.count, this, node, i + 1, Append(acc, r.ret))

\* clone(): a new node with this.model, then the clones of the children.
clone(h, count, this) ==
  cloneChildren(NewNode(h, count + 1, h.model[this]), count + 1, this,
                count + 1, 0, <<>>)

RECURSIVE map(_, _, _, _)
RECURSIVE mapChildren(_, _, _, _, _, _, _)
RECURSIVE mapChildren_noIndex(_, _, _, _, _, _, _)

\* The children.map of map without the assignment of newChild._index.
mapChildren_noIndex(h, count, this, cb, node, i, acc) ==
  IF i >= Len(h.children[this])
    THEN [heap |-> [h EXCEPT !.children[node] = acc], count |-> count, ret |-> node]
    ELSE LET r  == map(h, count, h.children[this][i + 1], cb)
             h1 == [r.heap EXCEPT !.parent[r.ret] = node]
         IN mapChildren_noIndex(h1, r.count, this, cb, node, i + 1, Append(acc, r.ret))

\* The children.map of map from position i on.
mapChildren(h, count, this, cb, node, i, acc) ==
  IF i >= Len(h.children[this])
    THEN [heap |-> [h EXCEPT !.children[node] = acc], count |-> count, ret |-> node]
    ELSE LET r  == map(h, count, h.children[this][i + 1], cb)
             h1 == [r.heap EXCEPT !.parent[r.ret] = node, !.index[r.ret] = i]
         IN mapChildren(h1, r.count, this, cb, node, i + 1, Append(acc, r.ret))

\* map(callback): a new node with callback(this), then the maps of the
\* children.
map(h, count, this, cb) ==
  mapChildren(NewNode(h, count + 1, callback(cb, h, this)), count + 1, this, cb,
              count + 1, 0, <<>>)

RECURSIVE parse(_, _, _)
RECURSIVE parseChildren(_, _, _, _, _)
RECURSIVE parseChildren_prepend(_, _, _, _, _)

\* The forEach of parse that adds every parsed child in front.
parseChildren_prepend(h, count, tree, node, i) ==
  IF i >= Len(tree.children)
    THEN [heap |-> h, count |-> count, ret |-> node]
    ELSE LET r == parse(h, count, tree.children[i + 1])
         IN parseChildren_prepend(add(r.heap, node, r.ret, TRUE, 0).heap, r.count,
                                  tree, node, i + 1)

\* The forEach of parse from position i on: node.add(TreeNode.parse(child)).
parseChildren(h, count, tree, node, i) ==
  IF i >= Len(tree.children)
    THEN [heap |-> h, count |-> count, ret |-> node]
    ELSE LET r == parse(h, count, tree.children[i + 1])
         IN parseChildren(add(r.heap, node, r.ret, FALSE, 0).heap, r.count,
                          tree, node, i + 1)

\* TreeNode.parse(tree): a new node with tree.model, then every parsed child
\* of the description appended.
parse(h, count, tree) ==
  parseChildren(NewNode(h, count + 1, tree.model), count + 1, tree, count + 1, 0)

\* toObject(): { model, children: children.map(child => child.toObject()) };
\* fuel bounds the descent on a cyclic heap.
RECURSIVE toObjectFrom(_, _, _)
toObjectFrom(h, this, fuel) ==
  [model    |-> h.model[this],
   children |-> IF fuel = 0 THEN <<>>
                ELSE [k \in 1..Len(h.children[this]) |->
                        toObjectFrom(h, h.children[this][k], fuel - 1)]]

toObject(h, this) == toObjectFrom(h, this, Fuel(h))

----------------------------------------------------------------------------
(* Nested arrays.  A NestedArray value is a scalar model or an array of      *)
(* values; Array.isArray tells them apart.                                   *)

Scalar(m) == [isArray |-> FALSE, val |-> m, items |-> <<>>]
Arr(items) == [isArray |-> TRUE, val |-> Null, items |-> items]

\* get isLeaf
isLeaf(h, n) == Len(h.children[n]) = 0

\* toNestedArray(); fuel bounds the descent on a cyclic heap.
RECURSIVE toNestedArrayFrom(_, _, _)
toNestedArrayFrom(h, this, fuel) ==
  IF isLeaf(h, this) \/ fuel = 0 THEN Scalar(h.model[this])
  ELSE IF Len(h.children[this]) = 1
    THEN LET childResult == toNestedArrayFrom(h, h.children[this][1], fuel - 1)
         IN IF childResult.isArray
              THEN Arr(<<Scalar(h.model[this])>> \o childResult.items)
              ELSE Arr(<<Scalar(h.model[this]), childResult>>)
  ELSE IF \A k \in 1..Len(h.children[this]) : isLeaf(h, h.children[this][k])
    THEN Arr(<<Scalar(h.model[this]),
               Arr([k \in 1..Len(h.children[this]) |->
                      Scalar(h.model[h.children[this][k]])])>>)
  ELSE Arr(<<Scalar(h.model[this])>> \o
           [k \in 1..Len(h.children[this]) |->
              toNestedArrayFrom(h, h.children[this][k], fuel - 1)])

toNestedArray(h, this) == toNestedArrayFrom(h, this, Fuel(h))

\* for (const leaf of inner) node.addModel(leaf), from position i on.
RECURSIVE addLeaves(_, _, _, _, _)
addLeaves(h, count, node, inner, i) ==
  IF i > Len(inner) THEN [heap |-> h, count |-> count, ret |-> node]
  ELSE addLeaves(add(NewNode(h, count + 1, inner[i].val), node, count + 1,
                     FALSE, 0).heap,
                 count + 1, node, inner, i + 1)

\* let current = node; for (const val of rest) current = current.addModel(val)
RECURSIVE addChain(_, _, _, _, _, _)
addChain(h, count, node, current, rest, i) ==
  IF i > Len(rest) THEN [heap |-> h, count |-> count, ret |-> node]
  ELSE addChain(add(NewNode(h, count + 1, rest[i].val), current, count + 1,
                    FALSE, 0).heap,
                count + 1, node, count + 1, rest, i + 1)

RECURSIVE fromNestedArray(_, _, _)
RECURSIVE addResults(_, _, _, _, _)

\* for (const childResult of rest) node.add(fromNestedArray(childResult))
addResults(h, count, node, rest, i) ==
  IF i > Len(rest) THEN [heap |-> h, count |-> count, ret |-> node]
  ELSE LET r == fromNestedArray(h, count, rest[i])
       IN addResults(add(r.heap, node, r.ret, FALSE, 0).heap, r.count, node,
                     rest, i + 1)

\* TreeNode.fromNestedArray(input)
fromNestedArray(h, count, input) ==
  IF ~input.isArray
    THEN [heap |-> NewNode(h, count + 1, input.val), count |-> count + 1,
          ret |-> count + 1]
  ELSE LET node == count + 1
           h1   == NewNode(h, node, Head(input.items).val)
           rest == Tail(input.items)
       IN IF Len(rest) = 0
            THEN [heap |-> h1, count |-> node, ret |-> node]
          ELSE IF Len(rest) = 1 /\ rest[1].isArray
            THEN LET inner == rest[1].items
                 IN IF ~(\E k \in 1..Len(inner) : inner[k].isArray)
                      THEN addLeaves(h1, node, node, inner, 1)
                      ELSE addResults(h1, node, node, <<rest[1]>>, 1)
          ELSE IF ~(\E k \in 1..Len(rest) : rest[k].isArray)
            THEN addChain(h1, node, node, node, rest, 1)
          ELSE addResults(h1, node, node, rest, 1)

----------------------------------------------------------------------------
(* The calls *)

\* arg is the argument of a query (a path, a key, a callback, ...), out what
\* it returned when that is not a node, method the strategy passed ("" when
\* omitted).
NoCall == [op |-> "none", this |-> Null, child |-> Null, hasIndex |-> FALSE,
           i |-> 0, j |-> 0, threw |-> FALSE, ret |-> Null,
           arg |-> <<>>, out |-> <<>>, method |-> ""]

\* No object but the first (a root the caller holds, payload 1) exists yet.
Init ==
  /\ model = [n \in Nodes |-> IF n = 1 THEN 1 ELSE Null]
  /\ parent = [n \in Nodes |-> Null]
  /\ children = [n \in Nodes |-> <<>>]
  /\ index = [n \in Nodes |-> 0]
  /\ nodeCount = 1
  /\ call = NoCall
  /\ pre = [model |-> model, parent |-> parent, children |-> children,
            index |-> index]
  /\ tasks = <<>>

Install(h) ==
  /\ model' = h.model
  /\ parent' = h.parent
  /\ children' = h.children
  /\ index' = h.index

\* const n = new TreeNode(m); the pool must have an object left.
New(m) ==
  /\ call.op = "none"
  /\ (nodeCount + 1) \in DOMAIN parent
  /\ nodeCount' = nodeCount + 1
  /\ Install(NewNode(Heap, nodeCount + 1, m))
  /\ pre' = Heap
  /\ call' = [NoCall EXCEPT !.op = "new", !.ret = nodeCount + 1]
  /\ UNCHANGED tasks

\* this.add(child) and this.add(child, idx)
Add(this, child, hasIndex, idx) ==
  LET r == add(Heap, this, child, hasIndex, idx)
  IN /\ call.op = "none"
     /\ Install(r.heap)
     /\ pre' = Heap
     /\ call' = [NoCall EXCEPT !.op = "add", !.this = this, !.child = child,
                               !.hasIndex = hasIndex, !.i = idx,
                               !.threw = r.threw, !.ret = r.ret]
     /\ UNCHANGED <<nodeCount, tasks>>

\* this.addModel(m) and this.addModel(m, idx)
AddModel(this, m, hasIndex, idx) ==
  LET n == nodeCount + 1
      r == add(NewNode(Heap, n, m), this, n, hasIndex, idx)
  IN /\ call.op = "none"
     /\ n \in DOMAIN parent
     /\ nodeCount' = n
     /\ Install(r.heap)
     /\ pre' = Heap
     /\ call' = [NoCall EXCEPT !.op = "addModel", !.this = this, !.child = n,
                               !.hasIndex = hasIndex, !.i = idx,
                               !.threw = r.threw, !.ret = r.ret]
     /\ UNCHANGED tasks

\* this.swap(i, j)
Swap(this, i, j) ==
  LET r == swap(Heap, this, i, j)
  IN /\ call.op = "none"
     /\ Install(r.heap)
     /\ pre' = Heap
     /\ call' = [NoCall EXCEPT !.op = "swap", !.this = this, !.i = i, !.j = j,
                               !.threw = r.threw]
     /\ UNCHANGED <<nodeCount, tasks>>

\* this.drop()
Drop(this) ==
  /\ call.op = "none"
  /\ Install(drop(Heap, this))
  /\ pre' = Heap
  /\ call' = [NoCall EXCEPT !.op = "drop", !.this = this, !.ret = this]
  /\ UNCHANGED <<nodeCount, tasks>>

\* The caller has seen the outcome (the value returned or the error caught)
\* and goes on: the heap stays as the call left it.
Return ==
  /\ call.op # "none"
  /\ call' = NoCall
  /\ pre' = Heap
  /\ UNCHANGED <<model, parent, children, index, nodeCount, tasks>>

\* A caller that follows the node lifecycle hands add a standalone node:
\* one with no parent that is not the root of the receiver's own tree.
Standalone(this, child) == isRoot(Heap, child) /\ root(Heap, this) # child

\* The positions a caller passes to this.add: every valid one (0 to the
\* length), one below and one above; values further out take the same branch.
AddArgs(this) == (0 - 1)..(Len(children[this]) + 1)

\* The positions a caller passes to this.swap: every valid one (0 to the
\* length - 1), one below and one above.
SwapArgs(this) == (0 - 1)..Len(children[this])

\* The payload a caller gives the next node: a label of its own, as in the
\* fixture of the tests ("1", "11", "12", ...).  No method of the tree reads it.
NextLabel == nodeCount + 1

Next ==
  \/ New(NextLabel)
  \/ /\ call.op = "none"
     /\ \E this \in Created, child \in Created :
          /\ Standalone(this, child)
          /\ Add(this, child, FALSE, 0)
  \/ /\ call.op = "none"
     /\ \E this \in Created, child \in Created :
          \E idx \in AddArgs(this) :
            /\ Standalone(this, child)
            /\ Add(this, child, TRUE, idx)
  \/ /\ call.op = "none"
     /\ \E this \in Created : AddModel(this, NextLabel, FALSE, 0)
  \/ /\ call.op = "none"
     /\ \E this \in Created : \E idx \in AddArgs(this) :
          AddModel(this, NextLabel, TRUE, idx)
  \/ /\ call.op = "none"
     /\ \E this \in Created : \E i, j \in SwapArgs(this) : Swap(this, i, j)
  \/ /\ call.op = "none"
     /\ \E this \in Created : Drop(this)
  \/ Return

Spec == Init /\ [][Next]_vars

----------------------------------------------------------------------------
(* Vocabulary of the properties *)

Range(arr) == {arr[k] : k \in 1..Len(arr)}

\* The nodes reachable from n through children lists (n included).
RECURSIVE subtreeFrom(_, _, _)
subtreeFrom(h, n, fuel) ==
  {n} \cup (IF fuel = 0 THEN {}
            ELSE UNION {subtreeFrom(h, c, fuel - 1) : c \in Range(h.children[n])})

Subtree(h, n) == subtreeFrom(h, n, Fuel(h))

Roots == {r \in Created : parent[r] = Null}

\* The caller is between two calls, or the last call changed the heap (a call
\* that changed nothing left the heap of the state before it).
HeapIsNew == call.op = "none" \/ Heap # pre

IsAdd == call.op \in {"add", "addModel"}

\* The explicit index of the last add is outside 0..len, len the number of
\* children the receiver had when the call started.
AddOutOfRange ==
  /\ IsAdd
  /\ call.hasIndex
  /\ (call.i < 0 \/ call.i > Len(pre.children[call.this]))

\* A position of the last swap is outside 0..len-1.
SwapOutOfRange ==
  /\ call.op = "swap"
  /\ \/ call.i < 0 \/ call.j < 0
     \/ call.i >= Len(pre.children[call.this])
     \/ call.j >= Len(pre.children[call.this])

\* Node n has the same four fields as when the last call started.
Untouched(n) ==
  /\ model[n] = pre.model[n]
  /\ parent[n] = pre.parent[n]
  /\ children[n] = pre.children[n]
  /\ index[n] = pre.index[n]

----------------------------------------------------------------------------
(* The properties *)

\* C1: after any sequence of add, addModel, swap and drop calls, every node n
\* with a non-null parent p satisfies p.children[n.index] === n.
C1_IndexIsPosition ==
  \A n \in Created :
    parent[n] # Null => At(children[parent[n]], index[n]) = n

\* C2: add(child, k) with k < 0 or k > len throws, and afterwards the
\* receiver's children sequence and the cached index of each of those
\* children are what they were before the call.
C2_FailedAddKeepsChildren ==
  AddOutOfRange =>
    /\ call.threw
    /\ children[call.this] = pre.children[call.this]
    /\ \A c \in Range(children[call.this]) : index[c] = pre.index[c]

\* C2 happens: an add past the end threw on a receiver that has two children.
C2_Witness ==
  /\ call.op = "add" /\ call.threw
  /\ call.i > Len(pre.children[call.this])
  /\ Len(children[call.this]) >= 2

\* C3: after an add that throws, every node, the child passed as argument
\* included, has the parent, the children and the index it had before.
C3_FailedAddChangesNothing ==
  (IsAdd /\ call.threw) => \A n \in Nodes : Untouched(n)

\* C4: add(child, k) with 0 <= k <= len succeeds, returns child, sets
\* child.parent to the receiver, makes the receiver's children
\* old[0..k) ++ <<child>> ++ old[k..len) with every child's index its position
\* and the children before k untouched; add(child) leaves the state that
\* add(child, len) leaves.
C4_AddInserts ==
  IsAdd =>
    LET this  == call.this
        child == call.child
        old   == pre.children[this]
        len   == Len(old)
        k     == IF call.hasIndex THEN call.i ELSE len
    IN /\ (0 <= k /\ k <= len) => ~call.threw
       /\ ~call.threw =>
            /\ call.ret = child
            /\ parent[child] = this
            /\ children[this] = SubSeq(old, 1, k) \o <<child>> \o SubSeq(old, k + 1, len)
            /\ \A q \in 1..Len(children[this]) : index[children[this][q]] = q - 1
            /\ \A q \in 1..k : Untouched(old[q])
            /\ ~call.hasIndex =>
                 Heap = add(IF call.op = "addModel"
                              THEN NewNode(pre, child, model[child])
                              ELSE pre,
                            this, child, TRUE, len).heap

\* C4 happens: an insertion before the last of at least two children, and an
\* append to a receiver that has children.
C4_Witness ==
  /\ call.op = "add" /\ ~call.threw
  /\ \/ /\ call.hasIndex
        /\ call.i >= 1
        /\ call.i < Len(pre.children[call.this])
     \/ /\ ~call.hasIndex
        /\ Len(pre.children[call.this]) >= 2

\* C5: drop() on a node n with parent p removes exactly n from p.children,
\* decrements the index of every sibling after n, leaves the index of every
\* sibling before n, sets n.parent to null and n.index to 0, returns n and
\* leaves n's children attached to n.
C5_DropDetaches ==
  (call.op = "drop" /\ pre.parent[call.this] # Null) =>
    LET n   == call.this
        p   == pre.parent[n]
        old == pre.children[p]
    IN /\ \E pos \in 1..Len(old) :
            /\ old[pos] = n
            /\ children[p] = SubSeq(old, 1, pos - 1) \o SubSeq(old, pos + 1, Len(old))
            /\ \A q \in (pos + 1)..Len(old) : index[old[q]] = pre.index[old[q]] - 1
            /\ \A q \in 1..(pos - 1) : index[old[q]] = pre.index[old[q]]
       /\ parent[n] = Null
       /\ index[n] = 0
       /\ call.ret = n
       /\ children[n] = pre.children[n]
       /\ \A d \in Subtree(pre, n) \ {n} : Untouched(d)

\* C6: drop() on a root returns the node and changes nothing.
C6_DropOnRootIsNoOp ==
  (call.op = "drop" /\ pre.parent[call.this] = Null) =>
    /\ call.ret = call.this
    /\ \A n \in Nodes : Untouched(n)

\* C6 happens: drop was called on a root that has a child and a grandchild.
C6_Witness ==
  /\ call.op = "drop"
  /\ pre.parent[call.this] = Null
  /\ \E c \in Range(children[call.this]) : children[c] # <<>>

\* C7: swap(i, j) with i or j negative or >= the number of children throws
\* and leaves the children sequences and all cached indices unchanged.
C7_FailedSwapChangesNothing ==
  SwapOutOfRange =>
    /\ call.threw
    /\ children = pre.children
    /\ index = pre.index

\* C7 happens: one position valid, the other one past the end of two or more
\* children.
C7_Witness ==
  /\ call.op = "swap" /\ call.threw
  /\ Len(children[call.this]) >= 2
  /\ call.i = 0
  /\ call.j = Len(children[call.this])

\* C8: for in-range i and j, swap(i, j) exchanges the children at i and j, sets
\* their indices to their new positions and leaves every other child and its
\* index unchanged; swap(i, i) changes nothing; swap(i, j) has the effect of
\* swap(j, i).
C8_SwapExchanges ==
  (call.op = "swap" /\ ~SwapOutOfRange) =>
    LET this == call.this
        i    == call.i
        j    == call.j
        old  == pre.children[this]
        new  == children[this]
    IN /\ ~call.threw
       /\ Len(new) = Len(old)
       /\ new[i + 1] = old[j + 1]
       /\ new[j + 1] = old[i + 1]
       /\ index[new[i + 1]] = i
       /\ index[new[j + 1]] = j
       /\ \A q \in 1..Len(old) : q \notin {i + 1, j + 1} => new[q] = old[q]
       /\ \A n \in Nodes \ {old[i + 1], old[j + 1]} : index[n] = pre.index[n]
       /\ \A n \in Nodes \ {this} : children[n] = pre.children[n]
       /\ parent = pre.parent
       /\ i = j => \A n \in Nodes : Untouched(n)
       /\ Heap = swap(pre, this, j, i).heap

\* C8 happens: two different children of a node with three were exchanged.
C8_Witness ==
  /\ call.op = "swap" /\ ~call.threw
  /\ call.i # call.j
  /\ Len(children[call.this]) >= 3

\* C9: in every heap reached by add/drop/swap calls, for every node n
\* reachable from a root r, r.fetchByPathKey(n.pathKey) is n, the key of r
\* itself is empty, and distinct nodes of one tree have distinct path keys.
C9_PathKeyRoundTrip ==
  HeapIsNew => \A r \in Roots :
    \A tree \in {Subtree(Heap, r)} :
      \A key \in {[n \in tree |-> pathKey(Heap, n)]} :
        /\ key[r] = <<>>
        /\ \A n \in tree : fetchByPathKey(Heap, r, key[n]) = n
        /\ \A n, m \in tree : n # m => key[n] # key[m]

\* C9 happens: after a swap, a node two levels down is the first child of a
\* second child (key "-1,1").
C9_Witness ==
  /\ call.op = "swap" /\ ~call.threw /\ call.i # call.j
  /\ \E r \in Roots : \E n \in Subtree(Heap, r) :
       pathKey(Heap, n) = <<"-", "1", ",", "1">>

\* C10: in every heap reached by add/drop/swap calls, for every node n
\* reachable from a root r, r.indices is empty, the length of n.indices is n's
\* depth and r.fetch(n.indices) is n.
C10_IndicesAreThePath ==
  HeapIsNew => \A r \in Roots :
    /\ indices(Heap, r) = <<>>
    /\ \A n \in Subtree(Heap, r) :
         \A ix \in {indices(Heap, n)} :
           /\ Len(ix) = depth(Heap, n)
           /\ fetch(Heap, r, ix) = n

\* C10 happens: a swap, a drop or an insertion moved an ancestor of a node two
\* levels down, whose indices changed although its own index did not.
C10_Witness ==
  /\ call.op \in {"swap", "drop", "add"} /\ ~call.threw
  /\ \E r \in Roots : \E n \in Subtree(Heap, r) :
       /\ depth(Heap, n) = 2
       /\ Untouched(n)
       /\ n # call.this /\ n # call.child
       /\ indices(Heap, n) # indices(pre, n)
       /\ indices(Heap, n)[1] # indices(Heap, n)[2]

----------------------------------------------------------------------------
(* Queries on a tree: fetch, fetchByPathKey, pathKey, the traversals *)

\* Size of the largest tree the queries are put to (the fixture of the tests
\* has five nodes).
MaxTreeSize == 5

\* Length of the longest path handed to fetch.
MaxPathLen == 3

\* One root, labelled 1, in a pool of MaxTreeSize objects.
InitQuery ==
  /\ model = [n \in 1..MaxTreeSize |-> IF n = 1 THEN 1 ELSE Null]
  /\ parent = [n \in 1..MaxTreeSize |-> Null]
  /\ children = [n \in 1..MaxTreeSize |-> <<>>]
  /\ index = [n \in 1..MaxTreeSize |-> 0]
  /\ nodeCount = 1
  /\ call = NoCall
  /\ pre = [model |-> model, parent |-> parent, children |-> children,
            index |-> index]
  /\ tasks = <<>>

\* A query reads the heap and assigns no field of any node.
Query(c) ==
  /\ call.op = "none"
  /\ call' = c
  /\ pre' = Heap
  /\ UNCHANGED <<model, parent, children, index, nodeCount, tasks>>

\* this.fetch(ix)
Fetch(this, ix) ==
  Query([NoCall EXCEPT !.op = "fetch", !.this = this, !.arg = ix,
                       !.ret = fetch(Heap, this, ix)])

\* this.fetchByPathKey(key), key the text of the tokens parts.
FetchByPathKey(this, parts) ==
  Query([NoCall EXCEPT !.op = "fetchByPathKey", !.this = this,
                       !.arg = parts, !.out = join(parts),
                       !.ret = fetchByPathKey(Heap, this, join(parts))])

\* this.breadth(callback), this.pre(callback), this.post(callback); out is the
\* list of nodes the callback was invoked on.
Search(this, method, truthy) ==
  LET r == traverse(Heap, this, method, truthy)
  IN Query([NoCall EXCEPT !.op = "search", !.this = this, !.method = method,
                          !.arg = truthy, !.ret = r.ret, !.out = r.visited])

\* this.flatten(method)
Flatten(this, method) ==
  Query([NoCall EXCEPT !.op = "flatten", !.this = this, !.method = method,
                       !.out = flatten(Heap, this, method)])

\* this.find(predicate) and this.find(predicate, method)
Find(this, predicate, hasMethod, method) ==
  Query([NoCall EXCEPT !.op = "find", !.this = this,
                       !.method = IF hasMethod THEN method ELSE "",
                       !.arg = predicate,
                       !.ret = find(Heap, this, predicate, hasMethod, method)])

\* this.findAll(predicate) and this.findAll(predicate, method)
FindAll(this, predicate, hasMethod, method) ==
  Query([NoCall EXCEPT !.op = "findAll", !.this = this,
                       !.method = IF hasMethod THEN method ELSE "",
                       !.arg = predicate,
                       !.out = findAll(Heap, this, predicate, hasMethod, method)])

\* type SearchStrategy
SearchStrategy == {"pre", "post", "breadth"}

\* The callbacks and predicates handed to a search of this: one for every set
\* of nodes of its subtree (no other node is handed to a callback).
Callbacks(this) == SUBSET subtreeFrom(Heap, this, MaxTreeSize)

\* Positions handed to fetch: one below the first, and up to one past the
\* second child.
FetchArgs == (0 - 1)..2

FetchPaths == UNION {[1..k -> FetchArgs] : k \in 0..MaxPathLen}

\* Tokens of the keys handed to fetchByPathKey: runs of up to two first
\* children, child positions up to 2, and the token 0.
KeyTokens == (0 - 2)..2

KeyParts == UNION {[1..k -> KeyTokens] : k \in 0..(MaxPathLen - 1)}

\* Lookups on every tree that addModel builds by appending.
NextQuery ==
  \/ /\ call.op = "none"
     /\ \E this \in Created : AddModel(this, NextLabel, FALSE, 0)
  \/ /\ call.op = "none"
     /\ \E this \in Created : \E ix \in FetchPaths : Fetch(this, ix)
  \/ /\ call.op = "none"
     /\ \E this \in Created : \E parts \in KeyParts : FetchByPathKey(this, parts)
  \/ Return

SpecQuery == InitQuery /\ [][NextQuery]_vars

\* Searches on every tree that addModel builds by appending and by inserting
\* in front (so that child order is not creation order).
NextSearch ==
  \/ /\ call.op = "none"
     /\ \E this \in Created : AddModel(this, NextLabel, FALSE, 0)
  \/ /\ call.op = "none"
     /\ \E this \in Created : AddModel(this, NextLabel, TRUE, 0)
  \/ /\ call.op = "none"
     /\ \E this \in Created, method \in SearchStrategy :
          \E truthy \in Callbacks(this) : Search(this, method, truthy)
  \/ /\ call.op = "none"
     /\ \E this \in Created, method \in SearchStrategy : Flatten(this, method)
  \/ /\ call.op = "none"
     /\ \E this \in Created : \E predicate \in Callbacks(this) :
          Find(this, predicate, FALSE, "")
  \/ /\ call.op = "none"
     /\ \E this \in Created, method \in SearchStrategy :
          \E predicate \in Callbacks(this) : Find(this, predicate, TRUE, method)
  \/ /\ call.op = "none"
     /\ \E this \in Created : \E predicate \in Callbacks(this) :
          FindAll(this, predicate, FALSE, "")
  \/ /\ call.op = "none"
     /\ \E this \in Created, method \in SearchStrategy :
          \E predicate \in Callbacks(this) : FindAll(this, predicate, TRUE, method)
  \/ Return

SpecSearch == InitQuery /\ [][NextSearch]_vars

\* The positions that lead from node this down to node n of its subtree, read
\* off the parent links and cached indices of n and its ancestors.
RelPath(h, this, n) == SubSeq(indices(h, n), depth(h, this) + 1, depth(h, n))

\* Some step of ix is out of range: its prefix leads from this to a node n,
\* and the next position is not one of n's children.
StepOutOfRange(h, this, ix) ==
  \E k \in 1..Len(ix) :
    \E n \in Subtree(h, this) :
      /\ RelPath(h, this, n) = SubSeq(ix, 1, k - 1)
      /\ (ix[k] < 0 \/ ix[k] >= Len(h.children[n]))

\* The path a key stands for: a positive token z is z first children, a
\* negative token -k is the child at position k.
RECURSIVE KeyPath(_)
KeyPath(parts) ==
  IF parts = <<>> THEN <<>>
  ELSE LET last == parts[Len(parts)]
       IN KeyPath(SubSeq(parts, 1, Len(parts) - 1)) \o
            (IF last < 0 THEN <<0 - last>> ELSE [q \in 1..last |-> 0])

\* The path the last fetch or fetchByPathKey call was asked for.
AskedPath == IF call.op = "fetch" THEN call.arg ELSE KeyPath(call.arg)

\* C11: fetch(indices) and fetchByPathKey(key) on a path with a step that is
\* out of range of the current node's children return null, raise no error and
\* leave every node as it was; fetch([]) and fetchByPathKey('') return the
\* receiver.
C11_MissingPathIsNull ==
  call.op \in {"fetch", "fetchByPathKey"} =>
    /\ ~call.threw
    /\ Heap = pre
    /\ StepOutOfRange(pre, call.this, AskedPath) => call.ret = Null
    /\ (call.op = "fetch" /\ call.arg = <<>>) => call.ret = call.this
    /\ (call.op = "fetchByPathKey" /\ call.out = <<>>) => call.ret = call.this

\* C11 happens: a key of two tokens whose first step exists and whose second
\* step is past the last child, asked of a node that is not the root.
C11_Witness ==
  /\ call.op = "fetchByPathKey"
  /\ Len(call.arg) = 2
  /\ call.arg[1] # 0
  /\ parent[call.this] # Null
  /\ fetch(Heap, call.this, KeyPath(<<call.arg[1]>>)) # Null
  /\ StepOutOfRange(Heap, call.this, AskedPath)
  /\ call.ret = Null

----------------------------------------------------------------------------
(* The encoding of get pathKey, on the indices of nodes of any depth *)

\* Length of the longest indices list put to the encoding.
MaxDepth == 6

\* Child positions in the lists: the first three, and one of two digits.
IndexValues == {0, 1, 2, 10}

IndexLists == UNION {[1..k -> IndexValues] : k \in 0..MaxDepth}

\* n.pathKey for a node n whose indices are ix.
PathKeyOf(ix) ==
  Query([NoCall EXCEPT !.op = "pathKey", !.arg = ix, !.out = pathKeyOf(ix)])

NextKey ==
  \/ /\ call.op = "none"
     /\ \E ix \in IndexLists : PathKeyOf(ix)
  \/ Return

SpecKey == InitQuery /\ [][NextKey]_vars

\* The tokens written in the key str.
TokensOf(str) ==
  IF str = <<>> THEN <<>>
  ELSE LET strs == split(str) IN [k \in 1..Len(strs) |-> Number(strs[k])]

\* C12: pathKey is the run-length encoding of indices: no token is 0, no two
\* positive tokens are adjacent, and reading a positive token z as z zeros and
\* a token -k as the index k gives indices back (so every maximal run of z
\* zeros is the token z and every nonzero index k the token -k, in order);
\* empty indices give the empty key; [0,0,0,1,0,0] gives 3,-1,2 and [0,1]
\* gives 1,-1.
C12_PathKeyIsRunLength ==
  call.op = "pathKey" =>
    LET ix     == call.arg
        tokens == TokensOf(call.out)
    IN /\ \A k \in 1..Len(tokens) : tokens[k] # 0
       /\ \A k \in 1..(Len(tokens) - 1) : ~(tokens[k] > 0 /\ tokens[k + 1] > 0)
       /\ KeyPath(tokens) = ix
       /\ ix = <<>> => call.out = <<>>
       /\ ix = <<0, 0, 0, 1, 0, 0>> => call.out = <<"3", ",", "-", "1", ",", "2">>
       /\ ix = <<0, 1>> => call.out = <<"1", ",", "-", "1">>

\* C12 happens: the key of [0,0,0,1,0,0] has been computed.
C12_Witness ==
  /\ call.op = "pathKey"
  /\ call.arg = <<0, 0, 0, 1, 0, 0>>
  /\ TokensOf(call.out) = <<3, 0 - 1, 2>>

----------------------------------------------------------------------------
(* Properties of the traversals *)

\* The position of the one occurrence of n in list.
PosIn(list, n) == CHOOSE k \in 1..Len(list) : list[k] = n

\* The subtree of node n has the shape of the fixture of the tests,
\* 1 -> {11 -> {111, 112}, 12}.
IsFixture(h, n) ==
  /\ Len(h.children[n]) = 2
  /\ Len(h.children[h.children[n][1]]) = 2
  /\ h.children[h.children[n][2]] = <<>>
  /\ \A k \in 1..2 : h.children[h.children[h.children[n][1]][k]] = <<>>

\* C13: flatten(strategy) lists every node of the receiver's subtree exactly
\* once; 'breadth' in level order (by depth, children of one parent in child
\* order, children of an earlier-listed parent before those of a later one),
\* 'pre' each node before all nodes below it and 'post' each node after all
\* nodes below it, the subtrees of the children of one node in child order; on
\* the fixture the lists are [1,11,12,111,112], [1,11,111,112,12] and
\* [111,112,11,12,1].
C13_FlattenOrders ==
  call.op = "flatten" =>
    LET this == call.this
        list == call.out
        tree == Subtree(Heap, this)
    IN /\ Len(list) = Cardinality(tree)
       /\ Range(list) = tree
       /\ \A pos \in {[n \in tree |-> PosIn(list, n)]} :
            /\ call.method = "breadth" =>
                 /\ \A a, b \in tree :
                      depth(Heap, a) < depth(Heap, b) => pos[a] < pos[b]
                 /\ \A a, b \in tree \ {this} :
                      (depth(Heap, a) = depth(Heap, b) /\ a # b) =>
                        /\ (parent[a] = parent[b] /\ index[a] < index[b])
                             => pos[a] < pos[b]
                        /\ (parent[a] # parent[b]
                              /\ pos[parent[a]] < pos[parent[b]])
                             => pos[a] < pos[b]
            /\ call.method = "pre" =>
                 \A n \in tree : \A d \in Subtree(Heap, n) \ {n} : pos[n] < pos[d]
            /\ call.method = "post" =>
                 \A n \in tree : \A d \in Subtree(Heap, n) \ {n} : pos[d] < pos[n]
            /\ call.method \in {"pre", "post"} =>
                 \A a, b \in tree \ {this} :
                   (parent[a] = parent[b] /\ index[a] < index[b]) =>
                     \A x \in Subtree(Heap, a), y \in Subtree(Heap, b) :
                       pos[x] < pos[y]
       /\ IsFixture(Heap, this) =>
            LET n1   == this
                n11  == children[this][1]
                n12  == children[this][2]
                n111 == children[n11][1]
                n112 == children[n11][2]
            IN list = IF call.method = "breadth" THEN <<n1, n11, n12, n111, n112>>
                      ELSE IF call.method = "pre" THEN <<n1, n11, n111, n112, n12>>
                      ELSE <<n111, n112, n11, n12, n1>>

\* C13 happens: the fixture's shape, with children that are not in the order
\* they were created in, flattened breadth first.
C13_Witness ==
  /\ call.op = "flatten"
  /\ call.method = "breadth"
  /\ IsFixture(Heap, call.this)
  /\ children[call.this][1] > children[call.this][2]
  /\ Len(call.out) = MaxTreeSize

\* C14: breadth, pre and post return the first node, in the strategy's
\* visitation order, for which the callback is truthy, and invoke the callback
\* on that node and the nodes before it only; they return null exactly when
\* the callback is truthy for no node of the subtree (and has then been invoked
\* on all of them).
C14_SearchStopsAtFirst ==
  call.op = "search" =>
    LET order == flatten(Heap, call.this, call.method)
        hits  == {k \in 1..Len(order) : order[k] \in call.arg}
    IN /\ (call.ret = Null) <=> (call.arg \cap Subtree(Heap, call.this) = {})
       /\ hits = {} => (call.ret = Null /\ call.out = order)
       /\ hits # {} =>
            \A first \in {k \in hits : \A q \in hits : k <= q} :
              /\ call.ret = order[first]
              /\ call.out = SubSeq(order, 1, first)

\* C14 happens: a post-order search found a node below the receiver although
\* the callback is truthy for a later node too, and left nodes unvisited.
C14_Witness ==
  /\ call.op = "search"
  /\ call.method = "post"
  /\ call.ret \notin {Null, call.this}
  /\ Cardinality(call.arg) >= 2
  /\ Len(call.out) >= 2
  /\ Len(call.out) + 2 <= Cardinality(Subtree(Heap, call.this))

\* The strategy the last find or findAll call ran with.
StrategyUsed == IF call.method = "" THEN "pre" ELSE call.method

\* C15: findAll(p, s) is flatten(s) restricted to the nodes satisfying p, in
\* the same order, and find(p, s) is the first element of findAll(p, s), or
\* null when that is empty; s defaults to 'pre'.
C15_FindAllIsFilteredFlatten ==
  /\ call.op = "findAll" =>
       LET order == flatten(Heap, call.this, StrategyUsed)
           found == call.out
       IN /\ Range(found) = Range(order) \cap call.arg
          /\ Len(found) = Cardinality(Range(found))
          /\ \A a, b \in Range(found) :
               PosIn(found, a) < PosIn(found, b) <=>
                 PosIn(order, a) < PosIn(order, b)
  /\ call.op = "find" =>
       \A found \in {findAll(Heap, call.this, call.arg,
                             call.method # "", call.method)} :
         call.ret = IF found = <<>> THEN Null ELSE found[1]

\* C15 happens: findAll without a strategy found two or more nodes but not
\* all, in a subtree whose pre-order and level order list them differently.
C15_Witness ==
  /\ call.op = "findAll"
  /\ call.method = ""
  /\ Len(call.out) >= 2
  /\ Len(call.out) < Cardinality(Subtree(Heap, call.this))
  /\ call.out # Filter(flatten(Heap, call.this, "breadth"), call.arg)

----------------------------------------------------------------------------
(* Copies of a tree: clone, map, toObject and parse *)

\* Size of the largest tree that is copied.
MaxCopySize == 6

\* The model of the k-th node of a description, in the order the description
\* is written: every node has a scalar label of its own, as in the fixture.
LabelOf(k) == 100 + k

\* The descriptions (IParseable) of the trees of n nodes, labelled from first
\* on, and the lists of descriptions of n nodes in all.
RECURSIVE DescriptionsOf(_, _)
RECURSIVE DescriptionLists(_, _)
DescriptionsOf(n, first) ==
  {[model |-> LabelOf(first), children |-> cs] :
     cs \in DescriptionLists(n - 1, first + 1)}

DescriptionLists(n, first) ==
  IF n = 0 THEN {<<>>}
  ELSE UNION {{<<d>> \o ds : d \in DescriptionsOf(k, first),
                             ds \in DescriptionLists(n - k, first + k)} :
              k \in 1..n}

Descriptions == UNION {DescriptionsOf(n, 1) : n \in 1..MaxCopySize}

\* No object exists yet; the pool holds a largest tree and a copy of it.
InitCopy ==
  /\ model = [n \in 1..(2 * MaxCopySize) |-> Null]
  /\ parent = [n \in 1..(2 * MaxCopySize) |-> Null]
  /\ children = [n \in 1..(2 * MaxCopySize) |-> <<>>]
  /\ index = [n \in 1..(2 * MaxCopySize) |-> 0]
  /\ nodeCount = 0
  /\ call = NoCall
  /\ pre = [model |-> model, parent |-> parent, children |-> children,
            index |-> index]
  /\ tasks = <<>>

\* The pool has room for a copy of the subtree of node this.
RoomFor(this) ==
  (nodeCount + Cardinality(subtreeFrom(Heap, this, MaxCopySize))) \in DOMAIN parent

\* TreeNode.parse(d); of is the node whose toObject() gave d (Null when the
\* caller wrote d).
Parse(d, of) ==
  LET r == parse(Heap, nodeCount, d)
  IN /\ Install(r.heap)
     /\ nodeCount' = r.count
     /\ pre' = Heap
     /\ call' = [NoCall EXCEPT !.op = "parse", !.this = of, !.arg = d,
                               !.ret = r.ret, !.i = nodeCount]
     /\ UNCHANGED tasks

\* this.toObject(); from is the description this was parsed from (<<>> when
\* it was not just parsed).
ToObject(this, from) ==
  /\ call' = [NoCall EXCEPT !.op = "toObject", !.this = this, !.arg = from,
                            !.out = toObject(Heap, this)]
  /\ pre' = Heap
  /\ UNCHANGED <<model, parent, children, index, nodeCount, tasks>>

\* this.clone(); i records how many objects there were before.
Clone(this) ==
  LET r == clone(Heap, nodeCount, this)
  IN /\ Install(r.heap)
     /\ nodeCount' = r.count
     /\ pre' = Heap
     /\ call' = [NoCall EXCEPT !.op = "clone", !.this = this, !.ret = r.ret,
                               !.i = nodeCount]
     /\ UNCHANGED tasks

\* this.map(cb)
Map(this, cb) ==
  LET r == map(Heap, nodeCount, this, cb)
  IN /\ Install(r.heap)
     /\ nodeCount' = r.count
     /\ pre' = Heap
     /\ call' = [NoCall EXCEPT !.op = "map", !.this = this, !.arg = cb,
                               !.ret = r.ret, !.i = nodeCount]
     /\ UNCHANGED tasks

\* this.toNestedArray()
ToNestedArray(this) ==
  /\ call' = [NoCall EXCEPT !.op = "toNestedArray", !.this = this,
                            !.out = toNestedArray(Heap, this)]
  /\ pre' = Heap
  /\ UNCHANGED <<model, parent, children, index, nodeCount, tasks>>

\* TreeNode.fromNestedArray(input); of is the node whose toNestedArray()
\* gave input.
FromNestedArray(input, of) ==
  LET r == fromNestedArray(Heap, nodeCount, input)
  IN /\ Install(r.heap)
     /\ nodeCount' = r.count
     /\ pre' = Heap
     /\ call' = [NoCall EXCEPT !.op = "fromNestedArray", !.this = of,
                               !.arg = input, !.ret = r.ret, !.i = nodeCount]
     /\ UNCHANGED tasks

\* A later call on a node of the clone just made; pre stays the heap from
\* before the clone and count is the number of objects afterwards.
Edit(h, count, kind) ==
  /\ Install(h)
  /\ nodeCount' = count
  /\ call' = [call EXCEPT !.op = "edit", !.method = kind]
  /\ UNCHANGED <<pre, tasks>>

\* The nodes of the clone just made.
Cloned == (call.i + 1)..nodeCount

NextCopy ==
  \/ /\ call.op = "none" /\ nodeCount = 0
     /\ \E d \in Descriptions : Parse(d, Null)
  \/ /\ call.op = "none"
     /\ \E this \in Created : \E i, j \in 0..(Len(children[this]) - 1) :
          i < j /\ Swap(this, i, j)
  \/ /\ call.op = "swap" \/ (call.op = "parse" /\ call.this = Null)
     /\ Return
  \/ /\ call.op = "parse" /\ call.this = Null
     /\ ToObject(call.ret, call.arg)
  \/ /\ call.op = "none"
     /\ \E this \in Created : ToObject(this, <<>>)
  \/ /\ call.op = "toObject" /\ call.arg = <<>> /\ RoomFor(call.this)
     /\ Parse(call.out, call.this)
  \/ /\ call.op = "none"
     /\ \E this \in Created : ToNestedArray(this)
  \/ /\ call.op = "toNestedArray" /\ RoomFor(call.this)
     /\ FromNestedArray(call.out, call.this)
  \/ /\ call.op = "none"
     /\ \E this \in Created : RoomFor(this) /\ Clone(this)
  \/ /\ call.op = "none"
     /\ \E this \in Created, cb \in {"bang", "degree"} : RoomFor(this) /\ Map(this, cb)
  \/ /\ call.op = "clone"
     /\ \E this \in Cloned : Edit(drop(Heap, this), nodeCount, "drop")
  \/ /\ call.op = "clone"
     /\ \E this \in Cloned : \E i, j \in 0..(Len(children[this]) - 1) :
          Edit(swap(Heap, this, i, j).heap, nodeCount, "swap")
  \/ /\ call.op = "clone" /\ (nodeCount + 1) \in DOMAIN parent
     /\ \E this \in Cloned : \E idx \in 0..Len(children[this]) :
          Edit(add(NewNode(Heap, nodeCount + 1, 0), this, nodeCount + 1, TRUE, idx).heap,
               nodeCount + 1, "add")

SpecCopy == InitCopy /\ [][NextCopy]_vars

----------------------------------------------------------------------------
(* Properties of the copies *)

\* The pairs <<x, y>> of nodes at the same position below a and below b.
RECURSIVE Pairs(_, _, _)
Pairs(h, a, b) ==
  {<<a, b>>} \cup
    UNION {Pairs(h, h.children[a][k], h.children[b][k]) :
             k \in 1..(IF Len(h.children[a]) < Len(h.children[b])
                         THEN Len(h.children[a]) ELSE Len(h.children[b]))}

\* The objects that existed before the last parse, clone or map call, and
\* the ones it constructed.
Older == 1..call.i
Newer == (call.i + 1)..nodeCount

\* The tree below node r is made of objects the last call constructed, has as
\* many nodes as the subtree of a, the same number of children at every
\* position, and links that agree: r is a root with index 0 and every other node
\* n has n.parent.children[n.index] === n.
FreshCopy(a, r) ==
  /\ Subtree(Heap, r) \subseteq Newer
  /\ Cardinality(Subtree(Heap, r)) = Cardinality(Subtree(pre, a))
  /\ \A pr \in Pairs(Heap, a, r) :
       Len(children[pr[1]]) = Len(children[pr[2]])
  /\ parent[r] = Null
  /\ index[r] = 0
  /\ \A n \in Subtree(Heap, r) \ {r} :
       /\ parent[n] \in Subtree(Heap, r)
       /\ At(children[parent[n]], index[n]) = n

\* C16: map(callback) returns a new tree of fresh nodes with the shape and
\* child order of the receiver's subtree; the model of each new node is
\* callback(original node at the same position); every new node but the root
\* has n.parent.children[n.index] === n; every node that existed before keeps
\* its model, parent, children and index.
C16_MapBuildsImage ==
  call.op = "map" =>
    /\ FreshCopy(call.this, call.ret)
    /\ \A pr \in Pairs(Heap, call.this, call.ret) :
         model[pr[2]] = callback(call.arg, pre, pr[1])
    /\ \A n \in Older : Untouched(n)

\* C16 happens: a node that is not the root, whose children are not in the
\* order they were created in and one of which has a child, was mapped.
C16_Witness ==
  /\ call.op = "map"
  /\ parent[call.this] # Null
  /\ Len(children[call.this]) >= 2
  /\ children[call.this][1] > children[call.this][2]
  /\ \E c \in Range(children[call.ret]) : children[c] # <<>>

\* C17: clone() on any node returns a tree made only of fresh nodes, with the
\* shape of the receiver's subtree and the same model at each position, whose
\* root has parent null and index 0 and whose other nodes have
\* n.parent.children[n.index] === n; every node that existed before is as it
\* was, also after a later add, drop or swap on a node of the clone.
C17_CloneIsFreshCopy ==
  /\ call.op = "clone" =>
       /\ FreshCopy(call.this, call.ret)
       /\ \A pr \in Pairs(Heap, call.this, call.ret) :
            model[pr[2]] = pre.model[pr[1]]
       /\ \A n \in Older : Untouched(n)
  /\ call.op = "edit" => \A n \in Older : Untouched(n)

\* C17 happens: a node with a parent and two or more children was cloned and
\* a child of the clone was then dropped.
C17_Witness ==
  /\ call.op = "edit"
  /\ call.method = "drop"
  /\ parent[call.this] # Null
  /\ Len(children[call.this]) >= 2
  /\ Len(children[call.ret]) < Len(children[call.this])

\* C18: parse(t.toObject()) is a tree of the shape of t with the same model
\* and child order at every position and every non-root node's index equal to
\* its position; parse(d).toObject() is d for every description d.
C18_ToObjectParseRoundTrip ==
  /\ (call.op = "parse" /\ call.this # Null) =>
       /\ FreshCopy(call.this, call.ret)
       /\ \A pr \in Pairs(Heap, call.this, call.ret) :
            model[pr[2]] = model[pr[1]]
       /\ \A n \in Subtree(Heap, call.ret) :
            \A k \in 1..Len(children[n]) : index[children[n][k]] = k - 1
  /\ (call.op = "toObject" /\ call.arg # <<>>) => call.out = call.arg

\* C18 happens: the description of a node with a parent, whose children are
\* not in the order they were created in and have children, was parsed back.
C18_Witness ==
  /\ call.op = "parse"
  /\ call.this # Null
  /\ parent[call.this] # Null
  /\ Len(children[call.this]) >= 2
  /\ children[call.this][1] > children[call.this][2]
  /\ \E c \in Range(children[call.ret]) : children[c] # <<>>

\* The three kinds of tree: a chain (no node has two children), a root with
\* several children that are all leaves, and a root with several children of
\* which at least one is not a leaf.
IsChain(h, n) == \A x \in Subtree(h, n) : Len(h.children[x]) <= 1
IsMultiLeaf(h, n) ==
  /\ Len(h.children[n]) >= 2
  /\ \A c \in Range(h.children[n]) : isLeaf(h, c)
IsMixed(h, n) ==
  /\ Len(h.children[n]) >= 2
  /\ \E c \in Range(h.children[n]) : ~isLeaf(h, c)

\* C19: for a chain tree, a multi-leaf-children tree and a mixed tree t over
\* scalar models, fromNestedArray(t.toNestedArray()) has the shape of t with
\* the same model and child order at every position.
C19_NestedArrayRoundTrip ==
  (/\ call.op = "fromNestedArray"
   /\ \/ IsChain(pre, call.this)
      \/ IsMultiLeaf(pre, call.this)
      \/ IsMixed(pre, call.this)) =>
    /\ FreshCopy(call.this, call.ret)
    /\ \A pr \in Pairs(Heap, call.this, call.ret) : model[pr[2]] = model[pr[1]]

----------------------------------------------------------------------------
(* mapAsync.  tasks[s] tells how far the transform of source node s has got: *)
(*   idle      its callback has not been invoked                            *)
(*   called    callback(s, ctx) was invoked and its promise is pending       *)
(*   resolved  the promise resolved with val; mapAsync(s) has not resumed    *)
(*   rejected  the promise rejected; mapAsync(s) has not resumed             *)
(*   joining   the new node was constructed, the children's transforms were *)
(*             launched and Promise.all is awaited                           *)
(*   done      mapAsync(s) resolved with the new node                        *)
(*   linked    the parent's arrow function has set parent and _index         *)
(*   failed    mapAsync(s) rejected                                          *)

\* n counts the invocations of the callback on s, and at is the rank of the
\* last one among all invocations of the run.
NoTask == [st |-> "idle", ctx |-> Null, val |-> <<>>, node |-> Null,
           n |-> 0, at |-> 0]

\* The number of callback invocations so far.
invocations(ts) ==
  CHOOSE m \in {ts[x].at : x \in DOMAIN ts} :
    \A x \in DOMAIN ts : ts[x].at <= m

\* The callbacks of the tests.  "path" is (node, parent) => node.model + '-' +
\* (parent?.model || 'null'): a model is the list of the labels joined, 'null'
\* is written Null.  The others are the callbacks handed to map, made async:
\* async (node) => node.model + "!" takes no second parameter.
asyncCallback(cb, h, node, ctx) ==
  IF cb = "path"
    THEN <<h.model[node]>> \o (IF ctx = Null THEN <<Null>> ELSE h.model[ctx])
    ELSE callback(cb, h, node)

\* The synchronous start of s.mapAsync(callback, ctx): the callback is invoked.
invoke(ts, h, cb, s, ctx) ==
  [ts EXCEPT ![s] = [st |-> "called", ctx |-> ctx,
                     val |-> asyncCallback(cb, h, s, ctx), node |-> Null,
                     n |-> ts[s].n + 1, at |-> invocations(ts) + 1]]

\* this._children.map that hands every child the context its parent was
\* handed instead of the new node.
RECURSIVE launchChildren_ownContext(_, _, _, _, _, _)
launchChildren_ownContext(ts, h, cb, this, node, i) ==
  IF i >= Len(h.children[this]) THEN ts
  ELSE launchChildren_ownContext(invoke(ts, h, cb, h.children[this][i + 1], ts[this].ctx),
                                 h, cb, this, node, i + 1)

\* A map that starts the transform of the first child a second time after
\* the last one.
RECURSIVE launchChildren_firstAgain(_, _, _, _, _, _)
launchChildren_firstAgain(ts, h, cb, this, node, i) ==
  IF i >= Len(h.children[this])
    THEN IF i = 0 THEN ts ELSE invoke(ts, h, cb, h.children[this][1], node)
    ELSE launchChildren_firstAgain(invoke(ts, h, cb, h.children[this][i + 1], node),
                                   h, cb, this, node, i + 1)

\* A loop that starts the transform of the first child only; the next ones
\* would be started after it has been awaited.
launchChildren_firstOnly(ts, h, cb, this, node, i) ==
  IF i >= Len(h.children[this]) THEN ts
  ELSE invoke(ts, h, cb, h.children[this][i + 1], node)

\* this._children.map(async (child, i) => ... child.mapAsync(callback, node))
\* from position i on: every child's transform is started, in order.
RECURSIVE launchChildren(_, _, _, _, _, _)
launchChildren(ts, h, cb, this, node, i) ==
  IF i >= Len(h.children[this]) THEN ts
  ELSE launchChildren(invoke(ts, h, cb, h.children[this][i + 1], node),
                      h, cb, this, node, i + 1)

\* One source tree of up to MaxTreeSize nodes is parsed first; the pool holds
\* it and its image.
InitAsync ==
  /\ model = [n \in 1..(2 * MaxTreeSize) |-> Null]
  /\ parent = [n \in 1..(2 * MaxTreeSize) |-> Null]
  /\ children = [n \in 1..(2 * MaxTreeSize) |-> <<>>]
  /\ index = [n \in 1..(2 * MaxTreeSize) |-> 0]
  /\ nodeCount = 0
  /\ call = NoCall
  /\ pre = [model |-> model, parent |-> parent, children |-> children,
            index |-> index]
  /\ tasks = [n \in 1..(2 * MaxTreeSize) |-> NoTask]

AsyncDescriptions == UNION {DescriptionsOf(n, 1) : n \in 1..MaxTreeSize}

\* TreeNode.parse(d), which starts no transform.
ParseSource(d) ==
  LET r == parse(Heap, nodeCount, d)
  IN /\ Install(r.heap)
     /\ nodeCount' = r.count
     /\ pre' = Heap
     /\ call' = [NoCall EXCEPT !.op = "parse", !.arg = d, !.ret = r.ret]
     /\ UNCHANGED tasks

\* The caller has the parsed tree.
Parsed ==
  /\ call.op = "parse"
  /\ call' = NoCall
  /\ pre' = Heap
  /\ UNCHANGED <<model, parent, children, index, nodeCount, tasks>>

\* const p = this.mapAsync(cb): runs up to the first await.
MapAsync(this, cb) ==
  /\ call.op = "none"
  /\ tasks' = invoke(tasks, Heap, cb, this, Null)
  /\ call' = [NoCall EXCEPT !.op = "mapAsync", !.this = this, !.arg = cb,
                            !.i = nodeCount]
  /\ pre' = Heap
  /\ UNCHANGED <<model, parent, children, index, nodeCount>>

\* The promise the callback returned for s resolves.
Resolve(s) ==
  /\ tasks[s].st = "called"
  /\ tasks' = [tasks EXCEPT ![s].st = "resolved"]
  /\ UNCHANGED <<model, parent, children, index, nodeCount, call, pre>>

\* The promise the callback returned for s rejects.
Reject(s) ==
  /\ tasks[s].st = "called"
  /\ tasks' = [tasks EXCEPT ![s].st = "rejected"]
  /\ UNCHANGED <<model, parent, children, index, nodeCount, call, pre>>

\* mapAsync(s) resumes after "await callback(...)": the new node is
\* constructed, every child's transform is started and Promise.all awaited.
Continue(s) ==
  LET node == nodeCount + 1
  IN /\ tasks[s].st = "resolved"
     /\ tasks' = launchChildren([tasks EXCEPT ![s].st = "joining", ![s].node = node],
                                NewNode(Heap, node, tasks[s].val), call.arg,
                                s, node, 0)
     /\ nodeCount' = node
     /\ Install(NewNode(Heap, node, tasks[s].val))
     /\ UNCHANGED <<call, pre>>

\* A rejection that is swallowed: the promise of mapAsync(s) never settles.
Abort_swallowed(s) ==
  /\ tasks[s].st = "rejected"
  /\ tasks' = [tasks EXCEPT ![s].st = "lost"]
  /\ UNCHANGED <<model, parent, children, index, nodeCount, call, pre>>

\* mapAsync(s) resumes after "await callback(...)" with the rejection and
\* rejects.
Abort(s) ==
  /\ tasks[s].st = "rejected"
  /\ tasks' = [tasks EXCEPT ![s].st = "failed"]
  /\ UNCHANGED <<model, parent, children, index, nodeCount, call, pre>>

\* The arrow function without the assignment of newChild._index.
Link_noIndex(c) ==
  LET p == parent[c]
  IN /\ c # call.this
     /\ tasks[c].st = "done"
     /\ parent' = [parent EXCEPT ![tasks[c].node] = tasks[p].node]
     /\ tasks' = [tasks EXCEPT ![c].st = "linked"]
     /\ UNCHANGED <<model, children, index, nodeCount, call, pre>>

\* The arrow function of c's parent resumes after "await child.mapAsync":
\* newChild.parent = node; newChild._index = i.
Link(c) ==
  LET p == parent[c]
  IN /\ c # call.this
     /\ tasks[c].st = "done"
     /\ parent' = [parent EXCEPT ![tasks[c].node] = tasks[p].node]
     /\ index' = [index EXCEPT ![tasks[c].node] = PosIn(children[p], c) - 1]
     /\ tasks' = [tasks EXCEPT ![c].st = "linked"]
     /\ UNCHANGED <<model, children, nodeCount, call, pre>>

\* Promise.all of s rejects because the transform of a child did, and so
\* does mapAsync(s).
Propagate(s) ==
  /\ tasks[s].st = "joining"
  /\ \E c \in Range(children[s]) : tasks[c].st = "failed"
  /\ tasks' = [tasks EXCEPT ![s].st = "failed"]
  /\ UNCHANGED <<model, parent, children, index, nodeCount, call, pre>>

\* A Promise.all whose result lists the children last first.
joinedChildren_reversed(ts, h, s) ==
  [k \in 1..Len(h.children[s]) |->
     ts[h.children[s][Len(h.children[s]) + 1 - k]].node]

\* The value of Promise.all(this._children.map(...)): the new child of every
\* child, at the position of its promise, which is the child's position.
joinedChildren(ts, h, s) ==
  [k \in 1..Len(h.children[s]) |-> ts[h.children[s][k]].node]

\* A join in the manner of Promise.allSettled, which takes the failed children
\* for finished ones.
Join_allSettled(s) ==
  /\ tasks[s].st = "joining"
  /\ \A c \in Range(children[s]) : tasks[c].st \in {"linked", "failed"}
  /\ children' = [children EXCEPT ![tasks[s].node] = joinedChildren(tasks, Heap, s)]
  /\ tasks' = [tasks EXCEPT ![s].st = "done"]
  /\ UNCHANGED <<model, parent, index, nodeCount, call, pre>>

\* Promise.all of s resolves with the new children in order:
\* node._children = [...]; return node.
Join(s) ==
  /\ tasks[s].st = "joining"
  /\ \A c \in Range(children[s]) : tasks[c].st = "linked"
  /\ children' = [children EXCEPT ![tasks[s].node] = joinedChildren(tasks, Heap, s)]
  /\ tasks' = [tasks EXCEPT ![s].st = "done"]
  /\ UNCHANGED <<model, parent, index, nodeCount, call, pre>>

\* The caller's await of p ends: with the new root, or with the rejection.
Settled ==
  /\ call.op = "mapAsync"
  /\ call.ret = Null /\ ~call.threw
  /\ tasks[call.this].st \in {"done", "failed"}
  /\ call' = [call EXCEPT !.ret = IF tasks[call.this].st = "done"
                                    THEN tasks[call.this].node ELSE Null,
                          !.threw = tasks[call.this].st = "failed"]
  /\ UNCHANGED <<model, parent, children, index, nodeCount, pre, tasks>>

\* The nodes the mapAsync call in progress is about.
Sources == subtreeFrom(pre, call.this, MaxTreeSize)

\* The nodes whose transform has been started: a promise or a job exists
\* for no other.
Started == {s \in 1..call.i : tasks[s].st # "idle"}

NextAsync ==
  \/ /\ call.op = "none" /\ nodeCount = 0
     /\ \E d \in AsyncDescriptions : ParseSource(d)
  \/ Parsed
  \/ \E this \in Created : MapAsync(this, "path")
  \/ /\ call.op = "mapAsync"
     /\ \E s \in Started : Resolve(s)
  \/ /\ call.op = "mapAsync"
     /\ \E s \in Started : Reject(s)
  \/ /\ call.op = "mapAsync"
     /\ \E s \in Started : Continue(s)
  \/ /\ call.op = "mapAsync"
     /\ \E s \in Started : Abort(s)
  \/ /\ call.op = "mapAsync"
     /\ \E s \in Started : Link(s)
  \/ /\ call.op = "mapAsync"
     /\ \E s \in Started : Propagate(s)
  \/ /\ call.op = "mapAsync"
     /\ \E s \in Started : Join(s)
  \/ Settled

SpecAsync == InitAsync /\ [][NextAsync]_vars

----------------------------------------------------------------------------
(* Properties of mapAsync *)

\* The transform of s has got past "await callback(...)" with a result.
Materialized(s) == tasks[s].st \in {"joining", "done", "linked", "failed"}
                   /\ tasks[s].node # Null

\* The models of the nodes of a list.
ModelsOf(h, list) == [k \in 1..Len(list) |-> h.model[list[k]]]

\* What the callback of the tests gives on the fixture rooted at n, in breadth
\* order: 1-null, 11-1-null, 12-1-null, 111-11-1-null, 112-11-1-null.
FixtureImage(h, n) ==
  LET m1 == h.model[n]
      m11 == h.model[h.children[n][1]]
      m12 == h.model[h.children[n][2]]
      m111 == h.model[h.children[h.children[n][1]][1]]
      m112 == h.model[h.children[h.children[n][1]][2]]
  IN << <<m1, Null>>, <<m11, m1, Null>>, <<m12, m1, Null>>,
        <<m111, m11, m1, Null>>, <<m112, m11, m1, Null>> >>

\* C20: in mapAsync the callback of a node has resolved before the callback of
\* any of its children is invoked; each child's callback receives as second
\* argument the already created new node of its parent, whose model is the
\* resolved result of the parent's callback, and the root's callback receives
\* none; on the fixture with the callback model + '-' + (parent model or
\* 'null') the result in breadth order is 1-null, 11-1-null, 12-1-null,
\* 111-11-1-null, 112-11-1-null.
C20_ParentBeforeChildren ==
  call.op = "mapAsync" =>
    /\ tasks[call.this].st # "idle"
    /\ tasks[call.this].ctx = Null
    /\ \A s \in Sources :
         /\ tasks[s].node # Null =>
              /\ tasks[s].node \in (call.i + 1)..nodeCount
              /\ model[tasks[s].node] = tasks[s].val
         /\ \A c \in Range(children[s]) :
              tasks[c].st # "idle" =>
                /\ Materialized(s)
                /\ tasks[c].ctx = tasks[s].node
                /\ tasks[c].val = <<model[c]>> \o tasks[s].val
    /\ (call.ret # Null /\ IsFixture(Heap, call.this)) =>
         ModelsOf(Heap, flatten(Heap, call.ret, "breadth"))
           = FixtureImage(Heap, call.this)

\* C20 happens: the fixture has been transformed to the end, the callback of
\* 12 having resolved before the one of 11.
C20_Witness ==
  /\ call.op = "mapAsync"
  /\ call.ret # Null
  /\ IsFixture(Heap, call.this)
  /\ tasks[children[call.this][2]].node < tasks[children[call.this][1]].node

\* The mapAsync call on s has settled: its promise resolved or rejected.
HasSettled(s) == tasks[s].st \in {"done", "linked", "failed"}

\* The transform of s is under way: its callback is pending, or its mapAsync
\* is about to resume or awaits its children.
InFlight(s) == tasks[s].st \in {"called", "resolved", "rejected", "joining"}

\* C21: a mapAsync call on a node does not settle until every child subtree
\* transform it launched has completed: in every interleaving, also when a
\* callback fails, nothing of the subtree is pending or about to start once
\* the enclosing call has settled.
C21_SettlesAfterSubtree ==
  call.op = "mapAsync" =>
    \A s \in Sources :
      HasSettled(s) =>
        \A d \in subtreeFrom(pre, s, MaxTreeSize) : ~InFlight(d)

\* C22: for every order in which the callbacks of concurrently transformed
\* siblings complete, the tree mapAsync returns has the shape and the child
\* order of the source: the new node built from the source child at position
\* i is at position i of the new parent's children, with index i and the new
\* parent as parent.
C22_ChildOrderMirrorsSource ==
  call.op = "mapAsync" =>
    \A s \in Sources :
      tasks[s].st \in {"done", "linked"} =>
        /\ Len(children[tasks[s].node]) = Len(children[s])
        /\ \A k \in 1..Len(children[s]) :
             /\ children[tasks[s].node][k] = tasks[children[s][k]].node
             /\ index[tasks[children[s][k]].node] = k - 1
             /\ parent[tasks[children[s][k]].node] = tasks[s].node

\* C22 happens: a tree is returned whose root has children, the callback of
\* the last child having completed before the one of the first, and a
\* grandchild.
C22_Witness ==
  /\ call.op = "mapAsync"
  /\ call.ret # Null
  /\ Len(children[call.this]) >= 2
  /\ tasks[children[call.this][Len(children[call.this])]].node
       < tasks[children[call.this][1]].node
  /\ \E c \in Range(children[call.this]) : children[c] # <<>>

\* The callback has rejected for s: the promise is rejected, or mapAsync(s)
\* has rejected before it constructed a node.
CallbackFailed(s) ==
  \/ tasks[s].st = "rejected"
  \/ tasks[s].st = "failed" /\ tasks[s].node = Null

\* C23: if the callback rejects for any node of the subtree, the top-level
\* mapAsync call does not resolve: it fails with one rejection and no tree,
\* complete or partial, is returned to the caller; the source tree is
\* unchanged.
C23_FailureFailsTheCall ==
  call.op = "mapAsync" =>
    /\ (\E s \in Sources : CallbackFailed(s)) =>
         /\ tasks[call.this].st # "done"
         /\ call.ret = Null
    /\ call.threw => (call.ret = Null /\ tasks[call.this].st = "failed")
    /\ call.ret # Null => (~call.threw /\ tasks[call.this].st = "done")
    /\ \A n \in 1..call.i : Untouched(n)

\* C23 happens: the caller has the rejection, after the callback failed for a
\* node below the receiver while the transform of another one had resolved
\* and been linked into a partial tree.
C23_Witness ==
  /\ call.op = "mapAsync"
  /\ call.threw
  /\ \E s \in Sources \ {call.this} : CallbackFailed(s)
  /\ \E s \in Sources : tasks[s].st = "linked"

\* C24: the callback is invoked at most once for a node of the source subtree
\* and never for a node outside it; in a run in which no callback fails, once
\* the call has resolved it has been invoked exactly once for every node of
\* the subtree.
C24_CallbackOncePerNode ==
  call.op = "mapAsync" =>
    \A subtree \in {Sources} :
      /\ \A x \in DOMAIN tasks : tasks[x].n <= 1
      /\ \A x \in DOMAIN tasks \ subtree : tasks[x].n = 0
      /\ tasks[call.this].st = "done" => \A s \in subtree : tasks[s].n = 1

\* C24 happens: the transform of a proper subtree of four nodes or more has
\* resolved.
C24_Witness ==
  /\ call.op = "mapAsync"
  /\ call.ret # Null
  /\ parent[call.this] # Null
  /\ Cardinality(Sources) >= MaxTreeSize - 1

\* C25: once a node's own callback has resolved and its mapAsync resumed, the
\* callback of every child has been invoked, in sibling order and with no
\* other invocation in between (so before any of their results is awaited);
\* a child's callback that never resolves does not keep its siblings'
\* callbacks from being invoked.
C25_ChildrenLaunchedTogether ==
  call.op = "mapAsync" =>
    \A s \in Sources :
      /\ tasks[s].node # Null =>
           /\ \A c \in Range(children[s]) : tasks[c].n >= 1
           /\ \A k \in 1..(Len(children[s]) - 1) :
                tasks[children[s][k + 1]].at = tasks[children[s][k]].at + 1
      /\ tasks[s].node = Null =>
           \A c \in Range(children[s]) : tasks[c].n = 0

\* C25 happens: the callback of a first child is still pending while the
\* transform of its next sibling, a node with children, has resolved.
C25_Witness ==
  /\ call.op = "mapAsync"
  /\ \E s \in Sources :
       /\ Len(children[s]) >= 2
       /\ tasks[children[s][1]].st = "called"
       /\ tasks[children[s][2]].st \in {"done", "linked"}
       /\ children[children[s][2]] # <<>>

----------------------------------------------------------------------------
(* Callers that hand add any node.  add takes any TreeNode as child: one     *)
(* that has a parent already, the receiver itself, one of its ancestors.     *)

\* The objects of the pool.
MaxAnyNodes == 3

\* The most entries the children lists hold together (a node can be listed
\* any number of times, so the lists have no bound of their own).
MaxAnyListed == 3

InitAny ==
  /\ model = [n \in 1..MaxAnyNodes |-> IF n = 1 THEN 1 ELSE Null]
  /\ parent = [n \in 1..MaxAnyNodes |-> Null]
  /\ children = [n \in 1..MaxAnyNodes |-> <<>>]
  /\ index = [n \in 1..MaxAnyNodes |-> 0]
  /\ nodeCount = 1
  /\ call = NoCall
  /\ pre = [model |-> model, parent |-> parent, children |-> children,
            index |-> index]
  /\ tasks = <<>>

\* The number of entries of the children lists of the nodes 1..n.
RECURSIVE listedUpTo(_, _)
listedUpTo(h, n) ==
  IF n = 0 THEN 0 ELSE Len(h.children[n]) + listedUpTo(h, n - 1)

\* The caller still adds.
HasRoom(this) == listedUpTo(Heap, nodeCount) < MaxAnyListed

NextAny ==
  \/ New(NextLabel)
  \/ /\ call.op = "none"
     /\ \E this \in Created, child \in Created :
          /\ HasRoom(this)
          /\ Add(this, child, FALSE, 0)
  \/ /\ call.op = "none"
     /\ \E this \in Created, child \in Created :
          \E idx \in AddArgs(this) :
            /\ HasRoom(this)
            /\ Add(this, child, TRUE, idx)
  \/ /\ call.op = "none"
     /\ \E this \in Created :
          /\ HasRoom(this)
          /\ AddModel(this, NextLabel, FALSE, 0)
  \/ /\ call.op = "none"
     /\ \E this \in Created : \E i, j \in SwapArgs(this) : Swap(this, i, j)
  \/ /\ call.op = "none"
     /\ \E this \in Created : Drop(this)
  \/ Return

SpecAny == InitAny /\ [][NextAny]_vars

----------------------------------------------------------------------------
(* Properties of the tree shape under any caller *)

\* The places (p, k) at which n is listed: position k of p's children.
ListedAt(n) ==
  {pk \in Created \X (1..MaxAnyListed) :
     pk[2] <= Len(children[pk[1]]) /\ children[pk[1]][pk[2]] = n}

\* C26: after any sequence of add/addModel/swap/drop calls, add being given
\* any existing node as child, every node occurs at most once in all the
\* children sequences together, and every element c of p.children has
\* c.parent = p.
C26_ListedOnceByParent ==
  \A n \in Created :
    /\ Cardinality(ListedAt(n)) <= 1
    /\ \A pk \in ListedAt(n) : parent[n] = pk[1]

\* C27: after any sequence of add/addModel/swap/drop calls, add being given
\* any existing node as child, no node is its own ancestor: the walk along
\* the parent links from any node ends at a node with parent null.
C27_ParentsAcyclic ==
  \A n \in Created : isRoot(Heap, root(Heap, n))

----------------------------------------------------------------------------
(* Nested arrays of trees of any shape *)

\* C28: for every tree t over scalar models, of any shape (a node with
\* exactly one child that has two or more children included),
\* fromNestedArray(t.toNestedArray()) is isomorphic to t: the same models in
\* the same shape and child order, so that trees that differ have different
\* encodings.
C28_NestedArrayIsFaithful ==
  call.op = "fromNestedArray" =>
    toObject(Heap, call.ret) = toObject(Heap, call.this)

----------------------------------------------------------------------------
(* mapAsync and map.  The callback is async (node) => node.model + "!": it   *)
(* takes no parent and its promise never rejects.                            *)

NextPure ==
  \/ /\ call.op = "none" /\ nodeCount = 0
     /\ \E d \in AsyncDescriptions : ParseSource(d)
  \/ Parsed
  \/ \E this \in Created : MapAsync(this, "bang")
  \/ /\ call.op = "mapAsync"
     /\ \E s \in Started : Resolve(s)
  \/ /\ call.op = "mapAsync"
     /\ \E s \in Started : Continue(s)
  \/ /\ call.op = "mapAsync"
     /\ \E s \in Started : Link(s)
  \/ /\ call.op = "mapAsync"
     /\ \E s \in Started : Join(s)
  \/ Settled

SpecPure == InitAsync /\ [][NextPure]_vars

\* What a caller can read off the tree below n without comparing objects: at
\* every position the model, the cached index, whether the parent link names
\* the node that lists it, and the same of the children in order.
RECURSIVE imageFrom(_, _, _, _)
imageFrom(h, n, from, fuel) ==
  [model |-> h.model[n], index |-> h.index[n], linked |-> h.parent[n] = from,
   children |-> IF fuel = 0 THEN <<>>
                ELSE [k \in 1..Len(h.children[n]) |->
                        imageFrom(h, h.children[n][k], n, fuel - 1)]]

imageOf(h, n) == imageFrom(h, n, Null, Fuel(h))

\* C29: for a callback that ignores its parent argument and never fails, the
\* tree mapAsync returns is the tree map returns with the same function, in
\* shape, child order, models, parent links and indices, for every
\* interleaving of the callbacks' completions.
C29_MapAsyncIsMap ==
  (call.op = "mapAsync" /\ call.ret # Null) =>
    \A m \in {map(pre, call.i, call.this, call.arg)} :
      imageOf(Heap, call.ret) = imageOf(m.heap, m.ret)

\* C29 happens: the fixture has been transformed, the callback of its last
\* leaf having completed first among the children.
C29_Witness ==
  /\ call.op = "mapAsync"
  /\ call.ret # Null
  /\ call.arg = "bang"
  /\ IsFixture(Heap, call.this)
  /\ tasks[children[call.this][2]].node < tasks[children[call.this][1]].node
  /\ tasks[children[children[call.this][1]][2]].node
       < tasks[children[children[call.this][1]][1]].node

----------------------------------------------------------------------------
(* Termination of mapAsync *)

\* A job of the microtask queue: the resumption of a mapAsync call or of an
\* arrow function whose awaited promise has settled.
Microtask ==
  \/ /\ call.op = "mapAsync"
     /\ \E s \in Started :
          Continue(s) \/ Abort(s) \/ Link(s) \/ Propagate(s) \/ Join(s)
  \/ Settled

\* The promise of the callback invoked on s settles.
CallbackSettles(s) ==
  /\ call.op = "mapAsync"
  /\ Resolve(s) \/ Reject(s)

\* What every step of a transform changes.
progress == <<tasks, call>>

\* The size of the trees whose transform is followed to its end.
MaxLiveSize == 4

LiveDescriptions == UNION {DescriptionsOf(n, 1) : n \in 1..MaxLiveSize}

NextLive ==
  \/ /\ call.op = "none" /\ nodeCount = 0
     /\ \E d \in LiveDescriptions : ParseSource(d)
  \/ Parsed
  \/ \E this \in Created : MapAsync(this, "path")
  \/ \E s \in 1..MaxLiveSize : CallbackSettles(s)
  \/ Microtask

\* Every callback invocation eventually settles, and the event loop runs the
\* jobs of the microtask queue.
SpecLive ==
  /\ InitAsync
  /\ [][NextLive]_vars
  /\ \A s \in 1..MaxLiveSize : WF_progress(CallbackSettles(s))
  /\ WF_progress(Microtask)

\* The caller has the outcome of the call.
CallSettled == call.op = "mapAsync" /\ (call.ret # Null \/ call.threw)

\* C30: on a finite tree, if every callback invocation eventually settles, the
\* top-level mapAsync call eventually settles and never stays pending: with
\* the new root when all callbacks resolve, with a rejection when at least one
\* callback rejects.
C30_MapAsyncSettles ==
  /\ (call.op = "mapAsync") ~> CallSettled
  /\ (call.op = "mapAsync" /\ \E s \in Sources : CallbackFailed(s))
       ~> (call.op = "mapAsync" /\ call.threw)
  /\ (call.op = "mapAsync" /\ \A s \in Sources : tasks[s].node # Null)
       ~> (call.op = "mapAsync" /\ call.ret # Null)
  /\ []((call.op = "mapAsync" /\ call.threw) =>
         \E s \in Sources : CallbackFailed(s))
  /\ []((call.op = "mapAsync" /\ call.ret # Null) =>
         \A s \in Sources : tasks[s].st \in {"done", "linked"})

\* C30 happens: the call on a whole tree of MaxLiveSize nodes has rejected
\* after the callback rejected for a leaf that is not a child of the receiver.
C30_Witness ==
  /\ call.op = "mapAsync"
  /\ call.threw
  /\ Cardinality(Sources) = MaxLiveSize
  /\ \E s \in Sources :
       /\ CallbackFailed(s)
       /\ children[s] = <<>>
       /\ parent[s] \notin {Null, call.this}

====
